---- MODULE Spec2Model ----
(***************************************************************************)
(* Model of the OS layer of zellij: the PTY byte bridge                    *)
(* (zellij-server/src/terminal_bytes.rs) and the PTY launcher with its     *)
(* exit watcher (zellij-os/src/pty.rs).                                    *)
(*                                                                         *)
(* BridgeSpec : two TerminalBytes instances draining two PTYs into the     *)
(*              screen channel.                                            *)
(* PtySpec    : one call of spawn_in_pty, the child and the exit watcher.  *)
(***************************************************************************)
EXTENDS Integers, Sequences, FiniteSets, TLC

(***************************************************************************)
(* Bounds of the model.                                                    *)
(***************************************************************************)
\* bytes a child writes to its PTY before it stops writing
MaxBytes == 3
\* length of the read buffer of listen (65536 in the code), scaled down
MaxChunk == 2
\* width in bits of the exit code (32 in the code), scaled down
CodeBits == 3
\* bytes written to a PTY's writer before the caller stops writing
MaxWritten == 2
\* width in bits of a process id (32 in the code), scaled down
PidBits == 3
\* processes the system has had, the caller included; fewer than 2^(PidBits-1)
NumProcs == 3
\* events pulled from a signal iterator before the caller stops pulling
MaxEvents == 3
\* OS triggers of each kind: console control events, terminal resizes
MaxTriggers == 2
\* notification sources that fail for good
MaxFailures == 1
\* BlockingSignalIterator::new calls
MaxIters == 2

\* the bridges, named by their terminal_id
Terminals == {1, 2}

Min(a, b) == IF a < b THEN a ELSE b

RECURSIVE Pow2(_)
Pow2(n) == IF n = 0 THEN 1 ELSE 2 * Pow2(n - 1)

RECURSIVE Zeros(_)
Zeros(n) == IF n = 0 THEN <<>> ELSE <<0>> \o Zeros(n - 1)

VARIABLES
    \* ---- TerminalBytes (one per terminal) ----
    pc,          \* position of listen: "loop","reading","matched","sending","final","done"
    inFlight,    \* offloaded reads of the bridge's reader that have not completed
    readRes,     \* what the last completed read returned, and listen's buf
    readLog,     \* every completed read's result, in order (history)
    sendLog,     \* every send to the screen the bridge attempted, in order (history)
    result,      \* what listen returned: "none", "Ok", "Err"
    \* ---- environment of the bridge ----
    ptyBuf,      \* bytes written by the child and not yet read from the master
    stream,      \* every byte the child has written, in order (history)
    slaveOpen,   \* the child still holds the subordinate side
    screenOpen,  \* the screen thread still receives from its channel
    screenLog,   \* messages the screen channel accepted from each bridge, in order
    \* ---- spawn_in_pty ----
    spPc,        \* position of spawn_in_pty
    spRet,       \* what spawn_in_pty returned: "none", "Ok", "Err"
    child,       \* "none", "running", "exited"
    childStatus, \* the exit status of the child once it has exited
    quitCb,      \* owner of the one-shot quit_cb: "spawn","watcher","called","dropped"
    cbArgs,      \* the arguments of every quit_cb call, in order (history)
    watcher,     \* exit-monitoring thread: "none", "waiting", "done"
    waitRes,     \* what child.wait() returned to the watcher
    cwdArg,      \* the cwd argument of spawn_in_pty
    sizeArg,     \* the size argument of spawn_in_pty
    cmdCwd,      \* whether command.cwd(..) was called: "unset", "set"
    spErr,       \* the step whose error spawn_in_pty returned, "" when none
    slaveOwners, \* who holds the subordinate side open: "launcher", "child"
    \* ---- PtyHandle and its master ----
    masterSize,  \* the size the master holds (a PortablePtySize)
    expectSize,  \* the size of the last successful openpty or resize (history)
    hWriter,     \* PtyHandle.writer: "Some" or "None"
    tookWriter,  \* the master's writer has been extracted
    wrote,       \* bytes the writer has accepted
    lastOp,      \* the last operation on the handle and what it returned
    \* ---- signal_process and the processes of the system ----
    platform,    \* the platform the program was built for
    procs,       \* the state of each process id
    sigRes,      \* the last signal_process call: arguments, OS calls, result
    \* ---- console BlockingSignalIterator ----
    quitFlag,    \* CTRL_QUIT_RECEIVED
    handler,     \* the console control handler is installed
    lastSize,    \* last_size of the live iterator
    termSize,    \* the size of the terminal
    events,      \* the events next() has returned
    triggers,    \* the OS triggers so far: console control events and resizes
    iters,       \* how many iterators have been constructed
    \* ---- the listeners of every platform ----
    lkind,       \* the listener modelled: platform and personality
    pending,     \* notifications delivered by the OS and not yet pulled
    closed,      \* notification sources whose stream has ended
    sample,      \* the last size sample of a polling listener
    newRes,      \* what the last constructor call returned
    cause        \* what the last event was returned for

bridgeVars == <<pc, inFlight, readRes, readLog, sendLog, result,
                ptyBuf, stream, slaveOpen, screenOpen, screenLog>>
argVars == <<cwdArg, sizeArg>>
handleVars == <<masterSize, expectSize, hWriter, tookWriter, wrote, lastOp>>
procVars == <<platform, procs, sigRes>>
lsnVars == <<lkind, pending, closed, sample, newRes, cause>>
sigVars == <<quitFlag, handler, lastSize, termSize, events, triggers, iters, lsnVars>>
osVars == <<procVars, sigVars>>
ptyVars == <<spPc, spRet, child, childStatus, quitCb, cbArgs, watcher, waitRes,
             cwdArg, sizeArg, cmdCwd, spErr, slaveOwners,
             masterSize, expectSize, hWriter, tookWriter, wrote, lastOp>>
vars == <<pc, inFlight, readRes, readLog, sendLog, result,
          ptyBuf, stream, slaveOpen, screenOpen, screenLog,
          spPc, spRet, child, childStatus, quitCb, cbArgs, watcher, waitRes,
          cwdArg, sizeArg, cmdCwd, spErr, slaveOwners,
          masterSize, expectSize, hWriter, tookWriter, wrote, lastOp,
          platform, procs, sigRes,
          quitFlag, handler, lastSize, termSize, events, triggers, iters,
          lkind, pending, closed, sample, newRes, cause>>

(***************************************************************************)
(* TerminalBytes                                                           *)
(***************************************************************************)
\* io::Result<usize> of a read, with the buffer the read filled
ReadOk(n, buf) == [kind |-> "Ok", n |-> n, buf |-> buf]
ReadErr(k) == [kind |-> k, n |-> 0, buf |-> Zeros(MaxChunk)]
\* before the first read: let mut buf = [0u8; 65536]
NoRead == [kind |-> "none", n |-> 0, buf |-> Zeros(MaxChunk)]

\* buf[..n].copy_from_slice(&data[..n]): the rest of buf keeps what it held
CopyFromSlice(buf, data, n) == SubSeq(data, 1, n) \o SubSeq(buf, n + 1, Len(buf))

\* ScreenInstruction
PtyBytesMsg(tid, bytes) == [kind |-> "PtyBytes", tid |-> tid, bytes |-> bytes]
RenderMsg == [kind |-> "Render", tid |-> 0, bytes |-> <<>>]

\* self.terminal_id of the bridge made by TerminalBytes::new for terminal t
TerminalId(t) == t

\* mutant of Payload: the whole buffer is sent, not the n bytes read
PayloadWholeBuf(buf, n) == buf

\* &buf[..n_bytes]
Payload(buf, n) == SubSeq(buf, 1, n)

\* the blocking closure of SyncReadAsyncReader::read on the reader of terminal t:
\* the results reader.read(&mut temp_buf) can produce now, with temp_buf (none:
\* the read blocks)
ReaderResults(t) ==
    {ReadOk(n, SubSeq(ptyBuf[t], 1, n) \o Zeros(MaxChunk - n)) :
        n \in 1..Min(Len(ptyBuf[t]), MaxChunk)}
    \cup (IF ptyBuf[t] = <<>> /\ ~slaveOpen[t] THEN {ReadOk(0, Zeros(MaxChunk))} ELSE {})
    \cup (IF ptyBuf[t] = <<>> /\ slaveOpen[t] THEN {ReadErr("WouldBlock")} ELSE {})
    \cup {ReadErr("Other")}

\* a read is also issued while a message waits to be sent
CanIssueReadWhileSending(t) == pc[t] \in {"loop", "sending"}

\* a single read slot shared by all bridges: a read is issued only while no
\* other bridge has one in flight
CanIssueReadSharedSlot(t) ==
    /\ pc[t] = "loop"
    /\ \A u \in Terminals \ {t} : inFlight[u] = 0

\* mutant of CanIssueRead: a read is issued without awaiting the previous one
CanIssueReadNoAwait(t) == pc[t] \in {"loop", "reading"}

\* listen awaits each read before its loop goes on: a read is issued only from
\* the head of the loop
CanIssueRead(t) == pc[t] = "loop"

\* listen: self.async_reader.read(&mut buf) is called; the read is offloaded
IssueRead(t) ==
    /\ CanIssueRead(t)
    /\ pc' = [pc EXCEPT ![t] = "reading"]
    /\ inFlight' = [inFlight EXCEPT ![t] = @ + 1]
    /\ UNCHANGED <<readRes, readLog, sendLog, result, ptyBuf, stream, slaveOpen,
                   screenOpen, screenLog>>
    /\ UNCHANGED ptyVars
    /\ UNCHANGED osVars

\* SyncReadAsyncReader::read: the offloaded read completes and the await returns
CompleteRead(t) ==
    /\ pc[t] = "reading"
    /\ inFlight[t] > 0
    /\ \E r \in ReaderResults(t) :
          /\ readRes' = [readRes EXCEPT ![t] =
                           [kind |-> r.kind, n |-> r.n,
                            buf |-> CopyFromSlice(@.buf, r.buf, r.n)]]
          /\ readLog' = [readLog EXCEPT ![t] = Append(@, r)]
          /\ ptyBuf' = [ptyBuf EXCEPT ![t] = SubSeq(@, r.n + 1, Len(@))]
    /\ inFlight' = [inFlight EXCEPT ![t] = @ - 1]
    /\ pc' = [pc EXCEPT ![t] = "matched"]
    /\ UNCHANGED <<sendLog, result, stream, slaveOpen, screenOpen, screenLog>>
    /\ UNCHANGED ptyVars
    /\ UNCHANGED osVars

\* listen: the arms of the match on the read's result
MatchRead(t) ==
    /\ pc[t] = "matched"
    /\ pc' = [pc EXCEPT ![t] =
                IF readRes[t].kind = "Ok" /\ readRes[t].n > 0 THEN "sending" ELSE "final"]
    /\ UNCHANGED <<inFlight, readRes, readLog, sendLog, result, ptyBuf, stream,
                   slaveOpen, screenOpen, screenLog>>
    /\ UNCHANGED ptyVars
    /\ UNCHANGED osVars

\* mutant of SendFailed: the failed send is logged and the loop goes on
SendFailedGoOn(t) ==
    /\ pc' = [pc EXCEPT ![t] = "loop"]
    /\ UNCHANGED result

\* listen: the `?` on a failed send of PtyBytes returns the error at once
SendFailed(t) ==
    /\ pc' = [pc EXCEPT ![t] = "done"]
    /\ result' = [result EXCEPT ![t] = "Err"]

\* mutant of FinalResult: the failure of the final Render is escalated
FinalResultEscalate(sendOk) == IF sendOk THEN "Ok" ELSE "Err"

\* listen: what is returned after the final Render, whose outcome is ignored
FinalResult(sendOk) == "Ok"

\* listen: async_send_to_screen(PtyBytes(terminal_id, bytes.to_vec())).await
\*         .with_context(err_context)?
SendPtyBytes(t) ==
    /\ pc[t] = "sending"
    /\ LET msg == PtyBytesMsg(TerminalId(t), Payload(readRes[t].buf, readRes[t].n))
       IN  /\ sendLog' = [sendLog EXCEPT ![t] = Append(@, [msg |-> msg, ok |-> screenOpen])]
           /\ IF screenOpen
                 THEN /\ screenLog' = [screenLog EXCEPT ![t] = Append(@, msg)]
                      /\ pc' = [pc EXCEPT ![t] = "loop"]
                      /\ UNCHANGED result
                 ELSE /\ UNCHANGED screenLog
                      /\ SendFailed(t)
    /\ UNCHANGED <<inFlight, readRes, readLog, ptyBuf, stream, slaveOpen, screenOpen>>
    /\ UNCHANGED ptyVars
    /\ UNCHANGED osVars

\* listen: let _ = async_send_to_screen(Render).await; Ok(())
FinalRender(t) ==
    /\ pc[t] = "final"
    /\ sendLog' = [sendLog EXCEPT ![t] = Append(@, [msg |-> RenderMsg, ok |-> screenOpen])]
    /\ screenLog' = IF screenOpen THEN [screenLog EXCEPT ![t] = Append(@, RenderMsg)]
                                  ELSE screenLog
    /\ pc' = [pc EXCEPT ![t] = "done"]
    /\ result' = [result EXCEPT ![t] = FinalResult(screenOpen)]
    /\ UNCHANGED <<inFlight, readRes, readLog, ptyBuf, stream, slaveOpen, screenOpen>>
    /\ UNCHANGED ptyVars
    /\ UNCHANGED osVars

(***************************************************************************)
(* Environment of the bridges                                              *)
(***************************************************************************)
\* the child of terminal t writes its next byte to the subordinate side
ChildWrite(t) ==
    /\ slaveOpen[t]
    /\ Len(stream[t]) < MaxBytes
    /\ LET b == 16 * t + Len(stream[t])
       IN  /\ stream' = [stream EXCEPT ![t] = Append(@, b)]
           /\ ptyBuf' = [ptyBuf EXCEPT ![t] = Append(@, b)]
    /\ UNCHANGED <<pc, inFlight, readRes, readLog, sendLog, result, slaveOpen,
                   screenOpen, screenLog>>
    /\ UNCHANGED ptyVars
    /\ UNCHANGED osVars

\* the child of terminal t terminates: the last owner of the subordinate side is gone
ChildExit(t) ==
    /\ slaveOpen[t]
    /\ slaveOpen' = [slaveOpen EXCEPT ![t] = FALSE]
    /\ UNCHANGED <<pc, inFlight, readRes, readLog, sendLog, result, ptyBuf, stream,
                   screenOpen, screenLog>>
    /\ UNCHANGED ptyVars
    /\ UNCHANGED osVars

\* the screen thread exits and its channel closes
ScreenExit ==
    /\ screenOpen
    /\ screenOpen' = FALSE
    /\ UNCHANGED <<pc, inFlight, readRes, readLog, sendLog, result, ptyBuf, stream,
                   slaveOpen, screenLog>>
    /\ UNCHANGED ptyVars
    /\ UNCHANGED osVars

(***************************************************************************)
(* spawn_in_pty and its exit watcher                                       *)
(***************************************************************************)
\* Option<i32> given to quit_cb
None == [tag |-> "None", val |-> 0]
Some(n) == [tag |-> "Some", val |-> n]

\* the exit statuses child.wait() can report: a code of CodeBits bits, or death by
\* a signal, which is reported with code 1
ExitStatuses ==
    {[code |-> c, signaled |-> FALSE] : c \in 0..(Pow2(CodeBits) - 1)}
    \cup {[code |-> 1, signaled |-> TRUE]}

\* status.success()
Success(st) == ~st.signaled /\ st.code = 0

\* status.exit_code(), an unsigned integer of CodeBits bits
ExitCode(st) == st.code

\* a conversion that keeps the number as it is
AsI32Identity(c) == c

\* mutant of AsI32: a saturating conversion
AsI32Saturating(c) == Min(c, Pow2(CodeBits - 1) - 1)

\* `as i32`: the unsigned value reinterpreted as a signed one of the same width
AsI32(c) == IF c >= Pow2(CodeBits - 1) THEN c - Pow2(CodeBits) ELSE c

\* the watcher's match on child.wait()
ExitOutcome(w) ==
    IF w.ok
       THEN IF Success(w.status) THEN Some(0) ELSE Some(AsI32(ExitCode(w.status)))
       ELSE None

\* PtySize, the sizes callers use
PtySizes ==
    {[rows |-> 24, cols |-> 80, pixel_width |-> 0, pixel_height |-> 0],
     [rows |-> 48, cols |-> 160, pixel_width |-> 640, pixel_height |-> 480]}

\* the size a PtyHandle reports before any PTY exists
NoSize == [rows |-> 0, cols |-> 0, pixel_width |-> 0, pixel_height |-> 0]

\* PortablePtySize { rows: size.rows, cols: size.cols, pixel_width: .., pixel_height: .. }
ToPortable(size) ==
    [rows |-> size.rows, cols |-> size.cols,
     pixel_width |-> size.pixel_width, pixel_height |-> size.pixel_height]

\* a conversion that exchanges rows and columns
FromPortableSwapped(size) ==
    [rows |-> size.cols, cols |-> size.rows,
     pixel_width |-> size.pixel_width, pixel_height |-> size.pixel_height]

\* PtySize { rows: size.rows, cols: size.cols, pixel_width: .., pixel_height: .. }
FromPortable(size) ==
    [rows |-> size.rows, cols |-> size.cols,
     pixel_width |-> size.pixel_width, pixel_height |-> size.pixel_height]

\* Option<PathBuf> cwd: not given, or a path that is missing, a file or a directory
CwdArgs ==
    {[given |-> FALSE, exists |-> FALSE, is_dir |-> FALSE],
     [given |-> TRUE, exists |-> FALSE, is_dir |-> FALSE],
     [given |-> TRUE, exists |-> TRUE, is_dir |-> FALSE],
     [given |-> TRUE, exists |-> TRUE, is_dir |-> TRUE]}

\* a test that accepts every existing path
CwdUsableExists(cwd) == cwd.exists

\* cwd.exists() && cwd.is_dir()
CwdUsable(cwd) == cwd.exists /\ cwd.is_dir

\* MasterPty::take_writer: the writer is handed out once; `osOk` is whether the
\* OS let the master be duplicated
MasterTakeWriter(taken, osOk) ==
    IF taken THEN [ok |-> FALSE, err |-> "already taken"]
    ELSE IF osOk THEN [ok |-> TRUE, err |-> ""]
    ELSE [ok |-> FALSE, err |-> "os"]

\* pty_system.openpty(pty_size) ... ?
OpenPty ==
    /\ spPc = "start"
    /\ \E ok \in BOOLEAN :
          IF ok THEN /\ spPc' = "opened"
                     /\ masterSize' = ToPortable(sizeArg)
                     /\ expectSize' = sizeArg
                     /\ slaveOwners' = {"launcher"}
                     /\ UNCHANGED <<spRet, quitCb, spErr>>
                ELSE /\ spPc' = "returned"
                     /\ spRet' = "Err"
                     /\ spErr' = "openpty"
                     /\ quitCb' = "dropped"
                     /\ UNCHANGED <<masterSize, expectSize, slaveOwners>>
    /\ UNCHANGED <<child, childStatus, cbArgs, watcher, waitRes>>
    /\ UNCHANGED <<argVars, cmdCwd, hWriter, tookWriter, wrote, lastOp>>
    /\ UNCHANGED bridgeVars
    /\ UNCHANGED osVars

\* CommandBuilder::new(&cmd); if let Some(cwd) = cwd { if cwd.exists() && cwd.is_dir()
\* { command.cwd(cwd) } else { log::error!(..) } }
BuildCommand ==
    /\ spPc = "opened"
    /\ spPc' = "built"
    /\ cmdCwd' = IF cwdArg.given /\ CwdUsable(cwdArg) THEN "set" ELSE "unset"
    /\ UNCHANGED <<spRet, child, childStatus, quitCb, cbArgs, watcher, waitRes>>
    /\ UNCHANGED <<argVars, spErr, slaveOwners, handleVars>>
    /\ UNCHANGED bridgeVars
    /\ UNCHANGED osVars

\* a launcher that starts the watcher although spawn_command failed
SpawnCommandStartsWatcher ==
    /\ spPc = "built"
    /\ \E ok \in BOOLEAN :
          IF ok THEN /\ spPc' = "spawned"
                     /\ child' = "running"
                     /\ slaveOwners' = slaveOwners \cup {"child"}
                     /\ UNCHANGED <<spRet, quitCb, spErr, watcher>>
                ELSE /\ spPc' = "returned"
                     /\ spRet' = "Err"
                     /\ spErr' = "spawn"
                     /\ quitCb' = "watcher"
                     /\ watcher' = "waiting"
                     /\ slaveOwners' = slaveOwners \ {"launcher"}
                     /\ UNCHANGED child
    /\ UNCHANGED <<childStatus, cbArgs, waitRes>>
    /\ UNCHANGED <<argVars, cmdCwd, handleVars>>
    /\ UNCHANGED bridgeVars
    /\ UNCHANGED osVars

\* pair.slave.spawn_command(command) ... ?; child.process_id()
SpawnCommand ==
    /\ spPc = "built"
    /\ \E ok \in BOOLEAN :
          IF ok THEN /\ spPc' = "spawned"
                     /\ child' = "running"
                     /\ slaveOwners' = slaveOwners \cup {"child"}
                     /\ UNCHANGED <<spRet, quitCb, spErr>>
                ELSE /\ spPc' = "returned"
                     /\ spRet' = "Err"
                     /\ spErr' = "spawn"
                     /\ quitCb' = "dropped"
                     /\ slaveOwners' = slaveOwners \ {"launcher"}
                     /\ UNCHANGED child
    /\ UNCHANGED <<childStatus, cbArgs, watcher, waitRes>>
    /\ UNCHANGED <<argVars, cmdCwd, handleVars>>
    /\ UNCHANGED bridgeVars
    /\ UNCHANGED osVars

\* a launcher that keeps its reference
SlaveKept(owners) == owners

\* the owners left once the launcher's reference is gone
SlaveDropped(owners) == owners \ {"launcher"}

\* drop(pair.slave)
DropSlave ==
    /\ spPc = "spawned"
    /\ spPc' = "slave_dropped"
    /\ slaveOwners' = SlaveDropped(slaveOwners)
    /\ UNCHANGED <<spRet, child, childStatus, quitCb, cbArgs, watcher, waitRes>>
    /\ UNCHANGED <<argVars, cmdCwd, spErr, handleVars>>
    /\ UNCHANGED bridgeVars
    /\ UNCHANGED osVars

\* pair.master.take_writer() ... ?
TakeWriter ==
    /\ spPc = "slave_dropped"
    /\ \E osOk \in BOOLEAN :
          LET r == MasterTakeWriter(tookWriter, osOk)
          IN  IF r.ok THEN /\ spPc' = "writer_taken"
                           /\ tookWriter' = TRUE
                           /\ UNCHANGED <<spRet, quitCb, spErr>>
                      ELSE /\ spPc' = "returned"
                           /\ spRet' = "Err"
                           /\ spErr' = "take_writer"
                           /\ quitCb' = "dropped"
                           /\ UNCHANGED tookWriter
    /\ UNCHANGED <<child, childStatus, cbArgs, watcher, waitRes>>
    /\ UNCHANGED <<argVars, cmdCwd, slaveOwners, masterSize, expectSize, hWriter,
                   wrote, lastOp>>
    /\ UNCHANGED bridgeVars
    /\ UNCHANGED osVars

\* a handle built without the writer
ReturnedWriterNone == "None"

\* PtyHandle { master: pair.master, writer: Some(writer) }
ReturnedWriter == "Some"

\* std::thread::spawn(move || ...); Ok(SpawnResult { pty: PtyHandle { master,
\* writer: Some(writer) }, child_pid })
StartWatcher ==
    /\ spPc = "writer_taken"
    /\ watcher' = "waiting"
    /\ quitCb' = "watcher"
    /\ spPc' = "returned"
    /\ spRet' = "Ok"
    /\ hWriter' = ReturnedWriter
    /\ UNCHANGED <<child, childStatus, cbArgs, waitRes>>
    /\ UNCHANGED <<argVars, cmdCwd, spErr, slaveOwners, masterSize, expectSize,
                   tookWriter, wrote, lastOp>>
    /\ UNCHANGED bridgeVars
    /\ UNCHANGED osVars

\* no exit status: the wait failed, or the child has not exited
NoStatus == [code |-> 0, signaled |-> FALSE]

\* what child.wait() can return now: the exit status once the child has
\* exited (until then the wait blocks), or an error of the wait itself
WaitResults ==
    (IF child = "exited" THEN {[ok |-> TRUE, status |-> childStatus]} ELSE {})
    \cup {[ok |-> FALSE, status |-> NoStatus]}

\* the exit-monitoring thread: child.wait() returns, quit_cb(exit_status)
WatcherRun ==
    /\ watcher = "waiting"
    /\ \E w \in WaitResults :
          /\ waitRes' = w
          /\ cbArgs' = Append(cbArgs, ExitOutcome(w))
    /\ quitCb' = "called"
    /\ watcher' = "done"
    /\ UNCHANGED <<spPc, spRet, child, childStatus>>
    /\ UNCHANGED <<argVars, cmdCwd, spErr, slaveOwners, handleVars>>
    /\ UNCHANGED bridgeVars
    /\ UNCHANGED osVars

\* the child terminates with some exit status
ChildTerminates ==
    /\ child = "running"
    /\ \E st \in ExitStatuses : childStatus' = st
    /\ child' = "exited"
    /\ slaveOwners' = slaveOwners \ {"child"}
    /\ UNCHANGED <<spPc, spRet, quitCb, cbArgs, watcher, waitRes>>
    /\ UNCHANGED <<argVars, cmdCwd, spErr, handleVars>>
    /\ UNCHANGED bridgeVars
    /\ UNCHANGED osVars

\* ---- PtyHandle ----

\* the result of an operation on the handle
OpResult(op, ok, err, size, n) ==
    [op |-> op, ok |-> ok, err |-> err, size |-> size, n |-> n]

NoOp == OpResult("none", TRUE, "", NoSize, 0)

\* a handle exists once spawn_in_pty has returned Ok
HandleExists == spPc = "returned" /\ spRet = "Ok"

\* PtyHandle::resize: self.master.resize(PortablePtySize { .. }).context("failed to resize PTY")
Resize(size) ==
    /\ HandleExists
    /\ \E ok \in BOOLEAN :
          IF ok THEN /\ masterSize' = ToPortable(size)
                     /\ expectSize' = size
                     /\ lastOp' = OpResult("resize", TRUE, "", NoSize, 0)
                ELSE /\ lastOp' = OpResult("resize", FALSE, "failed to resize PTY", NoSize, 0)
                     /\ UNCHANGED <<masterSize, expectSize>>
    /\ UNCHANGED <<hWriter, tookWriter, wrote>>
    /\ UNCHANGED <<spPc, spRet, child, childStatus, quitCb, cbArgs, watcher, waitRes>>
    /\ UNCHANGED <<argVars, cmdCwd, spErr, slaveOwners>>
    /\ UNCHANGED bridgeVars
    /\ UNCHANGED osVars

\* PtyHandle::get_size: self.master.get_size().context(..)?; Ok(PtySize { .. })
GetSize ==
    /\ HandleExists
    /\ \E ok \in BOOLEAN :
          lastOp' = IF ok THEN OpResult("get_size", TRUE, "", FromPortable(masterSize), 0)
                          ELSE OpResult("get_size", FALSE, "failed to get PTY size", NoSize, 0)
    /\ UNCHANGED <<masterSize, expectSize, hWriter, tookWriter, wrote>>
    /\ UNCHANGED <<spPc, spRet, child, childStatus, quitCb, cbArgs, watcher, waitRes>>
    /\ UNCHANGED <<argVars, cmdCwd, spErr, slaveOwners>>
    /\ UNCHANGED bridgeVars
    /\ UNCHANGED osVars

\* PtyHandle::try_clone_reader: self.master.try_clone_reader().context(..)
TryCloneReader ==
    /\ HandleExists
    /\ \E ok \in BOOLEAN :
          lastOp' = IF ok THEN OpResult("try_clone_reader", TRUE, "", NoSize, 0)
                          ELSE OpResult("try_clone_reader", FALSE, "failed to clone PTY reader", NoSize, 0)
    /\ UNCHANGED <<masterSize, expectSize, hWriter, tookWriter, wrote>>
    /\ UNCHANGED <<spPc, spRet, child, childStatus, quitCb, cbArgs, watcher, waitRes>>
    /\ UNCHANGED <<argVars, cmdCwd, spErr, slaveOwners>>
    /\ UNCHANGED bridgeVars
    /\ UNCHANGED osVars

\* a writer that is never looked at: every handle is taken to have one
WriterPresentAlways(w) == TRUE

\* self.writer.as_mut().context("PTY writer has already been taken")?
WriterPresent(w) == w = "Some"

\* PtyHandle::write: writer.write(buf).context("failed to write to PTY")
Write(len) ==
    /\ HandleExists
    /\ wrote + len <= MaxWritten
    /\ IF ~WriterPresent(hWriter)
          THEN /\ lastOp' = OpResult("write", FALSE, "PTY writer has already been taken", NoSize, 0)
               /\ UNCHANGED wrote
          ELSE \E n \in 0 .. len :
                  IF n > 0 THEN /\ wrote' = wrote + n
                                /\ lastOp' = OpResult("write", TRUE, "", NoSize, n)
                           ELSE /\ lastOp' = OpResult("write", FALSE, "failed to write to PTY", NoSize, 0)
                                /\ UNCHANGED wrote
    /\ UNCHANGED <<masterSize, expectSize, hWriter, tookWriter>>
    /\ UNCHANGED <<spPc, spRet, child, childStatus, quitCb, cbArgs, watcher, waitRes>>
    /\ UNCHANGED <<argVars, cmdCwd, spErr, slaveOwners>>
    /\ UNCHANGED bridgeVars
    /\ UNCHANGED osVars

\* PtyHandle::drain: writer.flush().context("failed to drain PTY")
Drain ==
    /\ HandleExists
    /\ IF ~WriterPresent(hWriter)
          THEN lastOp' = OpResult("drain", FALSE, "PTY writer has already been taken", NoSize, 0)
          ELSE \E ok \in BOOLEAN :
                  lastOp' = IF ok THEN OpResult("drain", TRUE, "", NoSize, 0)
                                  ELSE OpResult("drain", FALSE, "failed to drain PTY", NoSize, 0)
    /\ UNCHANGED <<masterSize, expectSize, hWriter, tookWriter, wrote>>
    /\ UNCHANGED <<spPc, spRet, child, childStatus, quitCb, cbArgs, watcher, waitRes>>
    /\ UNCHANGED <<argVars, cmdCwd, spErr, slaveOwners>>
    /\ UNCHANGED bridgeVars
    /\ UNCHANGED osVars

\* a further extraction attempt on the master the handle owns
TakeWriterAgain ==
    /\ HandleExists
    /\ \E osOk \in BOOLEAN :
          LET r == MasterTakeWriter(tookWriter, osOk)
          IN  /\ lastOp' = OpResult("take_writer", r.ok, r.err, NoSize, 0)
              /\ tookWriter' = (tookWriter \/ r.ok)
    /\ UNCHANGED <<masterSize, expectSize, hWriter, wrote>>
    /\ UNCHANGED <<spPc, spRet, child, childStatus, quitCb, cbArgs, watcher, waitRes>>
    /\ UNCHANGED <<argVars, cmdCwd, spErr, slaveOwners>>
    /\ UNCHANGED bridgeVars
    /\ UNCHANGED osVars

HandleOps ==
    \/ \E size \in PtySizes : Resize(size)
    \/ GetSize
    \/ TryCloneReader
    \/ \E len \in 1 .. MaxWritten : Write(len)
    \/ Drain

\* the state before spawn_in_pty(cmd, args, cwd, env, size, quit_cb) runs
PtyStart(cwd, size) ==
    /\ spPc = "start"
    /\ spRet = "none"
    /\ child = "none"
    /\ childStatus = NoStatus
    /\ quitCb = "spawn"
    /\ cbArgs = <<>>
    /\ watcher = "none"
    /\ waitRes = [ok |-> FALSE, status |-> NoStatus]
    /\ cwdArg = cwd
    /\ sizeArg = size
    /\ cmdCwd = "unset"
    /\ spErr = ""
    /\ slaveOwners = {}
    /\ masterSize = ToPortable(NoSize)
    /\ expectSize = NoSize
    /\ hWriter = "None"
    /\ tookWriter = FALSE
    /\ wrote = 0
    /\ lastOp = NoOp

PtyInit == \E cwd \in CwdArgs, size \in PtySizes : PtyStart(cwd, size)

\* no spawn_in_pty call is modelled
PtyIdle == PtyStart(CHOOSE cwd \in CwdArgs : ~cwd.given, NoSize)

\* a PtyHandle value: master of some size, writer present or absent
HandleInit ==
    /\ spPc = "returned"
    /\ spRet = "Ok"
    /\ child = "running"
    /\ childStatus = NoStatus
    /\ quitCb = "watcher"
    /\ cbArgs = <<>>
    /\ watcher = "waiting"
    /\ waitRes = [ok |-> FALSE, status |-> NoStatus]
    /\ cwdArg \in {cwd \in CwdArgs : ~cwd.given}
    /\ sizeArg \in PtySizes
    /\ cmdCwd = "unset"
    /\ spErr = ""
    /\ slaveOwners = {"child"}
    /\ masterSize = ToPortable(sizeArg)
    /\ expectSize = sizeArg
    /\ hWriter \in {"Some", "None"}
    /\ tookWriter = TRUE
    /\ wrote = 0
    /\ lastOp = NoOp

HandleNext ==
    \/ HandleOps
    \/ TakeWriterAgain

(***************************************************************************)
(* signal_process                                                          *)
(***************************************************************************)
\* ProcessSignal
ProcessSignals == {"HangUp", "Kill", "Interrupt"}

\* the values of the u32 argument pid
PidArgs == 0 .. (Pow2(PidBits) - 1)

\* the process ids the system has handed out: positive as a signed integer
Pids == 1 .. NumProcs

\* the caller's own process, and the process group it leads
SelfPid == 1

\* the process group of a process: process 2 is a child in the caller's group,
\* every other process leads its own group
Pgid(p) == IF p = 2 THEN SelfPid ELSE p

\* whether the caller may signal process p: only the last process id belongs to
\* another user
Permitted(p) == p # NumProcs

\* a process is in the process table while it runs and, after it has exited,
\* until its parent has waited for it
InTable(st) == st \in {"running", "zombie"}

\* a signed view that clamps to the largest process id
AsPidClamped(pid) == Min(pid, Pow2(PidBits - 1) - 1)

\* `pid as i32`: the unsigned value reinterpreted as a signed one of the same width
AsPid(pid) == IF pid >= Pow2(PidBits - 1) THEN pid - Pow2(PidBits) ELSE pid

\* the match on signal: HangUp => SIGHUP, Kill => SIGKILL, Interrupt => SIGINT
NixSignal(signal) ==
    CASE signal = "HangUp" -> "SIGHUP"
      [] signal = "Kill" -> "SIGKILL"
      [] signal = "Interrupt" -> "SIGINT"

\* kill(2): the processes a signed pid designates
KillTargets(p) ==
    IF p > 0 THEN {q \in Pids : q = p /\ InTable(procs[q])}
    ELSE IF p = 0 THEN {q \in Pids : Pgid(q) = SelfPid /\ InTable(procs[q])}
    ELSE IF p = -1 THEN {q \in Pids : q # SelfPid /\ InTable(procs[q])}
    ELSE {q \in Pids : Pgid(q) = -p /\ InTable(procs[q])}

\* kill(2): ESRCH when the pid designates no process, EPERM when the caller may
\* signal none of them, otherwise the signal goes to those it may signal
Kill(p, sig) ==
    LET targets == KillTargets(p)
        sent == {q \in targets : Permitted(q)}
    IN  IF targets = {} THEN [ok |-> FALSE, errno |-> "ESRCH", sent |-> {}]
        ELSE IF sent = {} THEN [ok |-> FALSE, errno |-> "EPERM", sent |-> {}]
        ELSE [ok |-> TRUE, errno |-> "", sent |-> sent]

\* a call to the OS and whether it succeeded
OsCall(name, arg, ok) == [call |-> name, arg |-> arg, ok |-> ok]

\* what a signal_process call did and returned
SigResult(pid, signal, calls, sent, ok, target) ==
    [pid |-> pid, signal |-> signal, calls |-> calls, sent |-> sent, ok |-> ok,
     target |-> target]

NoCall == SigResult(0, "none", <<>>, {}, TRUE, "none")

\* the state of the process whose id is pid when the call is made
TargetState(pid) == IF pid \in Pids THEN procs[pid] ELSE "none"

\* signal_process on unix: signal::kill(Pid::from_raw(pid as i32), Some(nix_signal))
UnixSignalProcess(pid, signal) ==
    /\ platform = "unix"
    /\ LET sig == NixSignal(signal)
           r == Kill(AsPid(pid), sig)
       IN  sigRes' = SigResult(pid, signal, <<OsCall("kill", sig, r.ok)>>,
                               r.sent, r.ok, TargetState(pid))
    /\ UNCHANGED <<platform, procs>>
    /\ UNCHANGED <<bridgeVars, ptyVars, sigVars>>

\* a control event is tried for every kind
CtrlEventAlways(signal) == TRUE

\* the match on signal: only Interrupt tries GenerateConsoleCtrlEvent
CtrlEventFirst(signal) == signal = "Interrupt"

\* terminate_process: OpenProcess, TerminateProcess, CloseHandle
TerminateProcess(openOk, termOk) ==
    IF ~openOk THEN [ok |-> FALSE, calls |-> <<OsCall("OpenProcess", "", FALSE)>>]
    ELSE [ok |-> termOk,
          calls |-> <<OsCall("OpenProcess", "", TRUE),
                      OsCall("TerminateProcess", "", termOk),
                      OsCall("CloseHandle", "", TRUE)>>]

\* signal_process on windows
WinSignalProcess(pid, signal) ==
    /\ platform = "windows"
    /\ \E ctrlOk, openOk, termOk \in BOOLEAN :
          LET ctrl == <<OsCall("GenerateConsoleCtrlEvent", "CTRL_C_EVENT", ctrlOk)>>
              t == TerminateProcess(openOk, termOk)
          IN  sigRes' =
                 IF CtrlEventFirst(signal)
                    THEN IF ctrlOk
                            THEN SigResult(pid, signal, ctrl, {}, TRUE, TargetState(pid))
                            ELSE SigResult(pid, signal, ctrl \o t.calls, {}, t.ok,
                                           TargetState(pid))
                    ELSE SigResult(pid, signal, t.calls, {}, t.ok, TargetState(pid))
    /\ UNCHANGED <<platform, procs>>
    /\ UNCHANGED <<bridgeVars, ptyVars, sigVars>>

\* signal_process on other platforms: anyhow::bail!
OtherSignalProcess(pid, signal) ==
    /\ platform = "other"
    /\ sigRes' = SigResult(pid, signal, <<>>, {}, FALSE, TargetState(pid))
    /\ UNCHANGED <<platform, procs>>
    /\ UNCHANGED <<bridgeVars, ptyVars, sigVars>>

\* a running process exits; it stays in the process table until it is waited for
ProcExit(p) ==
    /\ p # SelfPid
    /\ procs[p] = "running"
    /\ procs' = [procs EXCEPT ![p] = "zombie"]
    /\ UNCHANGED <<platform, sigRes>>
    /\ UNCHANGED <<bridgeVars, ptyVars, sigVars>>

\* the parent waits for an exited process: its id leaves the process table
ProcReap(p) ==
    /\ procs[p] = "zombie"
    /\ procs' = [procs EXCEPT ![p] = "reaped"]
    /\ UNCHANGED <<platform, sigRes>>
    /\ UNCHANGED <<bridgeVars, ptyVars, sigVars>>

\* no signal_process call is modelled
ProcIdle ==
    /\ platform = "unix"
    /\ procs = [p \in Pids |-> IF p = SelfPid THEN "running" ELSE "none"]
    /\ sigRes = NoCall

ProcInit ==
    /\ platform \in {"unix", "windows", "other"}
    /\ procs \in {f \in [Pids -> {"running", "none"}] : f[SelfPid] = "running"}
    /\ sigRes = NoCall

ProcNext ==
    \/ \E pid \in PidArgs, signal \in ProcessSignals : UnixSignalProcess(pid, signal)
    \/ \E pid \in PidArgs, signal \in ProcessSignals : WinSignalProcess(pid, signal)
    \/ \E pid \in PidArgs, signal \in ProcessSignals : OtherSignalProcess(pid, signal)
    \/ \E p \in Pids : ProcExit(p)
    \/ \E p \in Pids : ProcReap(p)

(***************************************************************************)
(* BlockingSignalIterator on console platforms                             *)
(***************************************************************************)
\* the sizes crossterm::terminal::size() can report
TermSizes == {<<80, 24>>, <<100, 30>>, <<120, 40>>}

\* unwrap_or((80, 24))
FallbackSize == <<80, 24>>

\* the control types the console delivers to the handler
CtrlTypes == {"CTRL_C_EVENT", "CTRL_BREAK_EVENT", "CTRL_CLOSE_EVENT",
              "CTRL_LOGOFF_EVENT", "CTRL_SHUTDOWN_EVENT"}

\* win_ctrl_handler: CTRL_C_EVENT | CTRL_BREAK_EVENT | CTRL_CLOSE_EVENT
IsQuitCtrl(type) == type \in {"CTRL_C_EVENT", "CTRL_BREAK_EVENT", "CTRL_CLOSE_EVENT"}

\* BlockingSignalIterator::new: CTRL_QUIT_RECEIVED.store(false, SeqCst)
FlagAfterNew(flag) == FALSE

\* a pull that consumes the flag it reads
FlagTakenByNext(flag) == FALSE

\* BlockingSignalIterator::next: CTRL_QUIT_RECEIVED.load(SeqCst) leaves the flag
FlagAfterNext(flag) == flag

\* what a constructor returned, and the registrations that failed
NewResult(res, failed) == [res |-> res, failed |-> failed]

NoNew == NewResult("none", {})

\* a constructor that returns a listener whatever failed
RegisteredLazily(failed) == "Ok"

\* the `?` after each registration, the `ok == 0` test after
\* SetConsoleCtrlHandler: Err as soon as one registration fails
Registered(failed) == IF failed = {} THEN "Ok" ELSE "Err"

\* a size sample: whether the query succeeded, the size read, last_size before
\* and after, and whether Resize was returned
SizeSample(ok, size, before, after, emitted) ==
    [ok |-> ok, size |-> size, before |-> before, after |-> after, emitted |-> emitted]

NoSample == SizeSample(FALSE, FallbackSize, FallbackSize, FallbackSize, FALSE)

\* a test that takes every sample for a change
SizeChangedAlways(new, last) == TRUE

\* new_size != self.last_size
SizeChanged(new, last) == new # last

\* crossterm::terminal::size().unwrap_or((80, 24))
SizeOrFallback(ok, size) == IF ok THEN size ELSE FallbackSize

\* a poll that looks at the size before the flag
PollResizeFirst(flag, changed) == flag /\ ~changed

\* BlockingSignalIterator::next looks at the flag first
PollReturnsQuit(flag, changed) == flag

\* BlockingSignalIterator::new on windows: the flag is reset, the handler is
\* installed (or Err is returned), last_size is the size now or the fallback
BlockingNew ==
    /\ iters < MaxIters
    /\ iters' = iters + 1
    /\ quitFlag' = FlagAfterNew(quitFlag)
    /\ \E failed \in SUBSET {"SetConsoleCtrlHandler"} :
          /\ newRes' = NewResult(Registered(failed), failed)
          /\ IF Registered(failed) = "Ok"
                THEN /\ handler' = TRUE
                     /\ \E sizeOk \in BOOLEAN :
                           lastSize' = SizeOrFallback(sizeOk, termSize)
                ELSE UNCHANGED <<handler, lastSize>>
    /\ UNCHANGED <<termSize, events, triggers>>
    /\ UNCHANGED <<lkind, pending, closed, sample, cause>>
    /\ UNCHANGED <<bridgeVars, ptyVars, procVars>>

\* the console delivers a control event: win_ctrl_handler runs
CtrlEvent(type) ==
    /\ handler
    /\ IF IsQuitCtrl(type)
          THEN /\ triggers.quit < MaxTriggers
               /\ quitFlag' = TRUE
               /\ triggers' = [triggers EXCEPT !.quit = @ + 1]
          ELSE UNCHANGED <<quitFlag, triggers>>
    /\ UNCHANGED <<handler, lastSize, termSize, events, iters>>
    /\ UNCHANGED lsnVars
    /\ UNCHANGED <<bridgeVars, ptyVars, procVars>>

\* the user resizes the terminal
TermResize(size) ==
    /\ size # termSize
    /\ triggers.resize < MaxTriggers
    /\ termSize' = size
    /\ triggers' = [triggers EXCEPT !.resize = @ + 1]
    /\ UNCHANGED <<quitFlag, handler, lastSize, events, iters>>
    /\ UNCHANGED lsnVars
    /\ UNCHANGED <<bridgeVars, ptyVars, procVars>>

\* if let Ok(new_size) = size() { if new_size != self.last_size { self.last_size
\* = new_size; return Some(Resize) } }: one size sample of a polling listener
PollSize(src) ==
    \E sizeOk \in BOOLEAN :
       LET emitted == sizeOk /\ SizeChanged(termSize, lastSize)
           after == IF emitted THEN termSize ELSE lastSize
       IN  /\ sample' = SizeSample(sizeOk, SizeOrFallback(sizeOk, termSize), lastSize,
                                   after, emitted)
           /\ lastSize' = after
           /\ IF emitted THEN /\ events' = Append(events, "Resize")
                              /\ cause' = src
                         ELSE UNCHANGED <<events, cause>>

\* BlockingSignalIterator::next on windows, one turn of its loop: Quit when the
\* flag is set; otherwise Resize when the size can be read and differs from
\* last_size; otherwise the call sleeps and polls again
BlockingNext ==
    /\ handler
    /\ Len(events) < MaxEvents
    /\ IF PollReturnsQuit(quitFlag, termSize # lastSize)
          THEN /\ events' = Append(events, "Quit")
               /\ cause' = "flag"
               /\ quitFlag' = FlagAfterNext(quitFlag)
               /\ UNCHANGED <<lastSize, sample>>
          ELSE /\ PollSize("size")
               /\ UNCHANGED quitFlag
    /\ UNCHANGED <<handler, termSize, triggers, iters>>
    /\ UNCHANGED <<lkind, pending, closed, newRes>>
    /\ UNCHANGED <<bridgeVars, ptyVars, procVars>>

\* no iterator is modelled
SigIdle ==
    /\ quitFlag = FALSE
    /\ handler = FALSE
    /\ lastSize = FallbackSize
    /\ termSize = FallbackSize
    /\ events = <<>>
    /\ triggers = [quit |-> 0, resize |-> 0]
    /\ iters = 0
    /\ lkind = "win_blocking"
    /\ pending = {}
    /\ closed = {}
    /\ sample = NoSample
    /\ newRes = NoNew
    /\ cause = ""

\* static CTRL_QUIT_RECEIVED: AtomicBool = AtomicBool::new(false); no iterator yet
SigInit ==
    /\ quitFlag = FALSE
    /\ handler = FALSE
    /\ lastSize = FallbackSize
    /\ termSize \in TermSizes
    /\ events = <<>>
    /\ triggers = [quit |-> 0, resize |-> 0]
    /\ iters = 0
    /\ lkind = "win_blocking"
    /\ pending = {}
    /\ closed = {}
    /\ sample = NoSample
    /\ newRes = NoNew
    /\ cause = ""

SigNext ==
    \/ BlockingNew
    \/ \E type \in CtrlTypes : CtrlEvent(type)
    \/ \E size \in TermSizes : TermResize(size)
    \/ BlockingNext

\* ---- the listeners of the other platforms and personalities ----

ListenerKinds == {"unix_async", "unix_blocking", "win_async", "win_blocking",
                  "other_async", "other_blocking"}

UnixKinds == {"unix_async", "unix_blocking"}

\* the listeners that sample the terminal size
PollingKinds == {"win_async", "win_blocking"}

OtherKinds == {"other_async", "other_blocking"}

\* the signals both POSIX constructors register
UnixSignals == {"SIGWINCH", "SIGTERM", "SIGINT", "SIGQUIT", "SIGHUP"}

\* the signals the OS may deliver to the process: the five, and one more
DeliveredSignals == UnixSignals \cup {"SIGUSR1"}

\* the control streams of the console async listener
CtrlStreams == {"ctrl_c", "ctrl_break", "ctrl_close"}

\* what each constructor registers
Registrations(kind) ==
    CASE kind \in UnixKinds -> UnixSignals
      [] kind = "win_async" -> CtrlStreams
      [] kind = "win_blocking" -> {"SetConsoleCtrlHandler"}
      [] OTHER -> {}

\* the notification sources whose stream can end: the five signal streams, the
\* Signals iterator, the three control streams; the console blocking iterator
\* has none
EndingSources(kind) ==
    CASE kind = "unix_async" -> UnixSignals
      [] kind = "unix_blocking" -> {"signals"}
      [] kind = "win_async" -> CtrlStreams
      [] OTHER -> {}

\* the select! branches of AsyncSignalListener::recv on unix, each with its own
\* result.map(|_| ...)
AsyncUnixEvent(signal) == IF signal = "SIGWINCH" THEN "Resize" ELSE "Quit"

\* a match that takes every signal for a request to quit
BlockingUnixEventAll(signal) == "Quit"

\* the match of BlockingSignalIterator::next on unix
BlockingUnixEvent(signal) ==
    CASE signal = "SIGWINCH" -> "Resize"
      [] signal \in {"SIGTERM", "SIGINT", "SIGQUIT", "SIGHUP"} -> "Quit"
      [] OTHER -> "none"

\* a pull that gives up on a source with nothing to report
StreamEndedAlways(src) == TRUE

\* a stream's recv resolves to None, forever() stops: the source has ended
StreamEnded(src) == src \in closed

\* no pull has returned None yet: the caller goes on pulling
Pulling == \A i \in DOMAIN events : events[i] # "None"

\* AsyncSignalListener::new and BlockingSignalIterator::new on unix: Err at
\* the first registration that fails
UnixNew ==
    /\ lkind \in UnixKinds
    /\ newRes = NoNew
    /\ iters < MaxIters
    /\ iters' = iters + 1
    /\ \E failed \in SUBSET Registrations(lkind) :
          /\ newRes' = NewResult(Registered(failed), failed)
          /\ handler' = (Registered(failed) = "Ok")
    /\ UNCHANGED <<quitFlag, lastSize, termSize, events, triggers>>
    /\ UNCHANGED <<lkind, pending, closed, sample, cause>>
    /\ UNCHANGED <<bridgeVars, ptyVars, procVars>>

\* AsyncSignalListener::new on windows: the size now or the fallback, then
\* the three control streams, Err at the first that fails
WinAsyncNew ==
    /\ lkind = "win_async"
    /\ newRes = NoNew
    /\ iters < MaxIters
    /\ iters' = iters + 1
    /\ \E failed \in SUBSET Registrations(lkind) :
          /\ newRes' = NewResult(Registered(failed), failed)
          /\ IF Registered(failed) = "Ok"
                THEN /\ handler' = TRUE
                     /\ \E sizeOk \in BOOLEAN :
                           lastSize' = SizeOrFallback(sizeOk, termSize)
                ELSE UNCHANGED <<handler, lastSize>>
    /\ UNCHANGED <<quitFlag, termSize, events, triggers>>
    /\ UNCHANGED <<lkind, pending, closed, sample, cause>>
    /\ UNCHANGED <<bridgeVars, ptyVars, procVars>>

\* both constructors on a platform that is neither unix nor windows
OtherNew ==
    /\ lkind \in OtherKinds
    /\ iters < MaxIters
    /\ iters' = iters + 1
    /\ newRes' = NewResult("Unsupported", {})
    /\ UNCHANGED <<quitFlag, handler, lastSize, termSize, events, triggers>>
    /\ UNCHANGED <<lkind, pending, closed, sample, cause>>
    /\ UNCHANGED <<bridgeVars, ptyVars, procVars>>

\* the OS delivers a signal to the process, or a control event to the console
\* async listener
Notify(src) ==
    /\ handler
    /\ src \in (IF lkind \in UnixKinds THEN DeliveredSignals
                ELSE IF lkind = "win_async" THEN CtrlStreams ELSE {})
    /\ src \notin pending
    /\ Cardinality(pending) < MaxTriggers
    /\ pending' = pending \cup {src}
    /\ UNCHANGED <<quitFlag, handler, lastSize, termSize, events, triggers, iters>>
    /\ UNCHANGED <<lkind, closed, sample, newRes, cause>>
    /\ UNCHANGED <<bridgeVars, ptyVars, procVars>>

\* a notification source fails for good
SourceFails(src) ==
    /\ handler
    /\ src \in EndingSources(lkind)
    /\ src \notin closed
    /\ Cardinality(closed) < MaxFailures
    /\ closed' = closed \cup {src}
    /\ UNCHANGED <<quitFlag, handler, lastSize, termSize, events, triggers, iters>>
    /\ UNCHANGED <<lkind, pending, sample, newRes, cause>>
    /\ UNCHANGED <<bridgeVars, ptyVars, procVars>>

\* AsyncSignalListener::recv on unix: select! over the five streams; the branch
\* that completes gives its event, or None when its stream has ended
UnixAsyncRecv ==
    /\ lkind = "unix_async"
    /\ handler
    /\ Pulling
    /\ Len(events) < MaxEvents
    /\ \E src \in UnixSignals :
          /\ cause' = src
          /\ IF src \in pending
                THEN /\ pending' = pending \ {src}
                     /\ events' = Append(events, AsyncUnixEvent(src))
                ELSE /\ StreamEnded(src)
                     /\ events' = Append(events, "None")
                     /\ UNCHANGED pending
    /\ UNCHANGED <<quitFlag, handler, lastSize, termSize, triggers, iters>>
    /\ UNCHANGED <<lkind, closed, sample, newRes>>
    /\ UNCHANGED <<bridgeVars, ptyVars, procVars>>

\* BlockingSignalIterator::next on unix, one turn of `for signal in
\* self.signals.forever()`: the signal's event, nothing for any other signal,
\* None when forever() stops
UnixBlockingNext ==
    /\ lkind = "unix_blocking"
    /\ handler
    /\ Pulling
    /\ Len(events) < MaxEvents
    /\ IF pending # {}
          THEN \E signal \in pending :
                  /\ pending' = pending \ {signal}
                  /\ IF BlockingUnixEvent(signal) = "none"
                        THEN UNCHANGED <<events, cause>>
                        ELSE /\ events' = Append(events, BlockingUnixEvent(signal))
                             /\ cause' = signal
          ELSE /\ StreamEnded("signals")
               /\ events' = Append(events, "None")
               /\ cause' = "signals"
               /\ UNCHANGED pending
    /\ UNCHANGED <<quitFlag, handler, lastSize, termSize, triggers, iters>>
    /\ UNCHANGED <<lkind, closed, sample, newRes>>
    /\ UNCHANGED <<bridgeVars, ptyVars, procVars>>

\* AsyncSignalListener::recv on windows, one turn of its loop: select! over
\* the tick of the interval and the three control streams
WinAsyncRecv ==
    /\ lkind = "win_async"
    /\ handler
    /\ Pulling
    /\ Len(events) < MaxEvents
    /\ \E src \in {"tick"} \cup CtrlStreams :
          IF src = "tick"
             THEN /\ PollSize("tick")
                  /\ UNCHANGED pending
             ELSE /\ cause' = src
                  /\ UNCHANGED <<lastSize, sample>>
                  /\ IF src \in pending
                        THEN /\ pending' = pending \ {src}
                             /\ events' = Append(events, "Quit")
                        ELSE /\ StreamEnded(src)
                             /\ events' = Append(events, "None")
                             /\ UNCHANGED pending
    /\ UNCHANGED <<quitFlag, handler, termSize, triggers, iters>>
    /\ UNCHANGED <<lkind, closed, newRes>>
    /\ UNCHANGED <<bridgeVars, ptyVars, procVars>>

\* any of the six listeners, not yet constructed
ListenerInit ==
    /\ lkind \in ListenerKinds
    /\ termSize \in (IF lkind \in PollingKinds THEN TermSizes ELSE {FallbackSize})
    /\ quitFlag = FALSE
    /\ handler = FALSE
    /\ lastSize = FallbackSize
    /\ events = <<>>
    /\ triggers = [quit |-> 0, resize |-> 0]
    /\ iters = 0
    /\ pending = {}
    /\ closed = {}
    /\ sample = NoSample
    /\ newRes = NoNew
    /\ cause = ""

ListenerNext ==
    \/ UnixNew
    \/ WinAsyncNew
    \/ OtherNew
    \/ lkind = "win_blocking" /\ BlockingNew
    \/ \E src \in DeliveredSignals \cup CtrlStreams : Notify(src)
    \/ \E src \in UnixSignals \cup CtrlStreams \cup {"signals"} : SourceFails(src)
    \/ lkind = "win_blocking" /\ \E type \in CtrlTypes : CtrlEvent(type)
    \/ lkind \in PollingKinds /\ \E size \in TermSizes : TermResize(size)
    \/ UnixAsyncRecv
    \/ UnixBlockingNext
    \/ WinAsyncRecv
    \/ lkind = "win_blocking" /\ BlockingNext

PtyNext ==
    \/ OpenPty
    \/ BuildCommand
    \/ SpawnCommand
    \/ DropSlave
    \/ TakeWriter
    \/ StartWatcher
    \/ WatcherRun
    \/ ChildTerminates
    \/ HandleOps

BridgeInit ==
    /\ pc = [t \in Terminals |-> "loop"]
    /\ inFlight = [t \in Terminals |-> 0]
    /\ readRes = [t \in Terminals |-> NoRead]
    /\ readLog = [t \in Terminals |-> <<>>]
    /\ sendLog = [t \in Terminals |-> <<>>]
    /\ result = [t \in Terminals |-> "none"]
    /\ ptyBuf = [t \in Terminals |-> <<>>]
    /\ stream = [t \in Terminals |-> <<>>]
    /\ slaveOpen = [t \in Terminals |-> TRUE]
    /\ screenOpen = TRUE
    /\ screenLog = [t \in Terminals |-> <<>>]

BridgeNext ==
    \/ \E t \in Terminals : IssueRead(t)
    \/ \E t \in Terminals : CompleteRead(t)
    \/ \E t \in Terminals : MatchRead(t)
    \/ \E t \in Terminals : SendPtyBytes(t)
    \/ \E t \in Terminals : FinalRender(t)
    \/ \E t \in Terminals : ChildWrite(t)
    \/ \E t \in Terminals : ChildExit(t)
    \/ ScreenExit

BridgeSpecInit == BridgeInit /\ PtyIdle /\ ProcIdle /\ SigIdle

BridgeSpec == BridgeSpecInit /\ [][BridgeNext]_vars

\* the bridge whose progress is followed, and the one whose read may hang
TerminalB == 2
TerminalA == 1

\* a step of listen for terminal t; its pc enables at most one of them
BridgeStep(t) ==
    \/ IssueRead(t)
    \/ CompleteRead(t)
    \/ MatchRead(t)
    \/ SendPtyBytes(t)
    \/ FinalRender(t)

\* the runtime runs the step of bridge B that is possible: its offloaded reads
\* run on the blocking pool and its task is polled; nothing is assumed of
\* bridge A, whose read may never return
BridgeBFairness == WF_vars(BridgeStep(TerminalB))

\* terminal A's child stays alive and silent, so the read bridge A issues never
\* returns; bridge B, its child and the screen are unconstrained
BlockedReadNext ==
    \/ IssueRead(TerminalA)
    \/ BridgeStep(TerminalB)
    \/ ChildWrite(TerminalB)
    \/ ChildExit(TerminalB)
    \/ ScreenExit

BlockedReadSpec == BridgeSpecInit /\ [][BlockedReadNext]_vars /\ BridgeBFairness

\* the bridges are not started: their state stays as constructed
PtySpecInit == PtyInit /\ BridgeInit /\ ProcIdle /\ SigIdle

PtySpec == PtySpecInit /\ [][PtyNext]_vars

\* the operations of PtyHandle on a handle with or without a writer
HandleSpecInit == HandleInit /\ BridgeInit /\ ProcIdle /\ SigIdle

HandleSpec == HandleSpecInit /\ [][HandleNext]_vars

\* signal_process called with any pid and kind while processes exit and are reaped
ProcSpecInit == ProcInit /\ BridgeInit /\ PtyIdle /\ SigIdle

ProcSpec == ProcSpecInit /\ [][ProcNext]_vars

\* one thread pulling from the console BlockingSignalIterator
SigSpecInit == SigInit /\ BridgeInit /\ PtyIdle /\ ProcIdle

SigSpec == SigSpecInit /\ [][SigNext]_vars

ListenerSpecInit == ListenerInit /\ BridgeInit /\ PtyIdle /\ ProcIdle

ListenerSpec == ListenerSpecInit /\ [][ListenerNext]_vars

(***************************************************************************)
(* Properties                                                              *)
(***************************************************************************)
Last(s) == s[Len(s)]

RECURSIVE Concat(_)
Concat(ss) == IF ss = <<>> THEN <<>> ELSE Head(ss) \o Concat(Tail(ss))

\* the payloads of the PtyBytes messages in a sequence of messages
BytesOf(msgs) ==
    LET b == SelectSeq(msgs, LAMBDA m : m.kind = "PtyBytes")
    IN  [i \in 1..Len(b) |-> b[i].bytes]

\* the reads of bridge t that returned n > 0 bytes
NonEmptyReads(t) == SelectSeq(readLog[t], LAMBDA r : r.kind = "Ok" /\ r.n > 0)

\* the messages bridge t attempted to send, delivered or not
Attempted(t) == [i \in 1..Len(sendLog[t]) |-> sendLog[t][i].msg]

\* C1 (as claimed): once spawn_in_pty has returned for a call that started a
\* child, the child has terminated and no watcher is still waiting, quit_cb has
\* been invoked exactly once; and it is never invoked twice.
C1_ExactlyOnce ==
    /\ Len(cbArgs) <= 1
    /\ (child = "exited" /\ spRet # "none" /\ watcher # "waiting") => Len(cbArgs) = 1

\* C2 (as claimed): the outcome given to quit_cb is Some(0) exactly when the
\* wait succeeded with a successful status, Some(n) with n equal to the reported
\* exit code when it succeeded with an unsuccessful status, and None exactly
\* when the wait failed; the watcher ends only after calling the handler.
C2_OutcomeIsExitCode ==
    watcher = "done" =>
        /\ Len(cbArgs) = 1
        /\ LET x == cbArgs[1]
               st == waitRes.status
               succ == ~st.signaled /\ st.code = 0
           IN  /\ (x = Some(0)) <=> (waitRes.ok /\ succ)
               /\ (waitRes.ok /\ ~succ) => x = Some(st.code)
               /\ (x = None) <=> ~waitRes.ok

\* C2 (amended): as C2, but the n of Some(n) is the reported exit code converted
\* to a signed integer of the same width: congruent to the code modulo 2^width
\* and within the signed range, so equal to the code below 2^(width-1) and the
\* code minus 2^width from there on.
C2_OutcomeIsConvertedExitCode ==
    watcher = "done" =>
        /\ Len(cbArgs) = 1
        /\ LET x == cbArgs[1]
               st == waitRes.status
               succ == ~st.signaled /\ st.code = 0
           IN  /\ (x = Some(0)) <=> (waitRes.ok /\ succ)
               /\ (waitRes.ok /\ ~succ) =>
                     /\ x.tag = "Some"
                     /\ (x.val - st.code) % Pow2(CodeBits) = 0
                     /\ x.val >= 0 - Pow2(CodeBits - 1)
                     /\ x.val < Pow2(CodeBits - 1)
               /\ (x = None) <=> ~waitRes.ok

\* C2 witness: the handler was called for a child whose unsuccessful exit code
\* has its top bit set, and received a negative number.
C2_Witness ==
    /\ watcher = "done"
    /\ waitRes.ok
    /\ waitRes.status.code >= Pow2(CodeBits - 1)
    /\ cbArgs[1].tag = "Some"
    /\ cbArgs[1].val < 0

\* C3: every PtyBytes message of a bridge carries its terminal_id and exactly
\* the bytes of one non-empty read, in the order of the reads; one message is
\* attempted per non-empty read; what the screen accepted is a prefix of what
\* the child wrote, and at the head of the loop it is all that was read.
C3_BytesForwardedInOrder ==
    \A t \in Terminals :
        LET reads == NonEmptyReads(t)
            tried == SelectSeq(Attempted(t), LAMBDA m : m.kind = "PtyBytes")
            got == SelectSeq(screenLog[t], LAMBDA m : m.kind = "PtyBytes")
            sent == Concat(BytesOf(screenLog[t]))
        IN  /\ Len(got) <= Len(tried)
            /\ Len(tried) <= Len(reads)
            /\ Len(reads) - Len(tried) <= 1
            /\ Len(tried) < Len(reads) => pc[t] \in {"matched", "sending"}
            /\ \A i \in 1..Len(tried) :
                  /\ tried[i].tid = t
                  /\ Len(tried[i].bytes) = reads[i].n
                  /\ \A k \in 1..reads[i].n : tried[i].bytes[k] = reads[i].buf[k]
            /\ \A i \in 1..Len(got) : got[i] = tried[i]
            /\ Len(sent) <= Len(stream[t])
            /\ sent = SubSeq(stream[t], 1, Len(sent))
            /\ pc[t] \in {"loop", "reading"} => sent \o ptyBuf[t] = stream[t]

\* C3 witness: one bridge has delivered two messages of different lengths and
\* the other bridge has delivered one too.
C3_Witness ==
    /\ Len(screenLog[1]) = 2
    /\ Len(screenLog[1][1].bytes) = 2
    /\ Len(screenLog[1][2].bytes) = 1
    /\ Len(screenLog[2]) >= 1
    /\ screenLog[2][1].kind = "PtyBytes"

\* C4 (as claimed): a read that fails with would-block does not end the loop:
\* the bridge goes on to retry the read.
C4_WouldBlockRetried ==
    \A t \in Terminals :
        (readLog[t] # <<>> /\ Last(readLog[t]).kind = "WouldBlock")
            => pc[t] \in {"matched", "loop", "reading"}

\* C5 (as claimed): when a read fails with an error other than would-block,
\* listen returns an error.
C5_ReadErrorReturned ==
    \A t \in Terminals :
        (pc[t] = "done" /\ readLog[t] # <<>> /\ Last(readLog[t]).kind = "Other")
            => result[t] = "Err"

\* C6 (as claimed): each PtyBytes message is followed by an attempt to send a
\* Render before the next read is issued.
C6_RenderAfterEachBatch ==
    \A t \in Terminals :
        (pc[t] = "reading" /\ sendLog[t] # <<>>)
            => Last(sendLog[t]).msg.kind = "Render"

\* C7 (as claimed): whenever listen has returned, the last send it attempted is
\* a Render, attempted after the loop ended, and it is the only final Render.
C7_FinalRenderOnEveryExit ==
    \A t \in Terminals :
        pc[t] = "done" =>
            /\ sendLog[t] # <<>>
            /\ Last(sendLog[t]).msg.kind = "Render"
            /\ Len(sendLog[t]) > 1 => sendLog[t][Len(sendLog[t]) - 1].msg.kind = "PtyBytes"

\* C8: a PtyBytes message the screen did not accept is the last send of its
\* bridge; listen has returned an error, no read is in flight and no read was
\* made after the one whose bytes could not be delivered.
C8_SendFailureEscalated ==
    \A t \in Terminals :
        \A i \in 1..Len(sendLog[t]) :
            (sendLog[t][i].msg.kind = "PtyBytes" /\ ~sendLog[t][i].ok) =>
                /\ i = Len(sendLog[t])
                /\ pc[t] = "done"
                /\ result[t] = "Err"
                /\ inFlight[t] = 0
                /\ Len(readLog[t]) = i

\* C8 witness: a bridge delivered one message, and its second was refused.
C8_Witness ==
    \E t \in Terminals :
        /\ Len(sendLog[t]) = 2
        /\ sendLog[t][1].ok
        /\ sendLog[t][2].msg.kind = "PtyBytes"
        /\ ~sendLog[t][2].ok
        /\ result[t] = "Err"

\* C9: when the loop ended by end-of-stream and every PtyBytes send succeeded,
\* listen returns Ok, whether the final Render was accepted or not.
C9_FinalRenderFailureIgnored ==
    \A t \in Terminals :
        (/\ pc[t] = "done"
         /\ readLog[t] # <<>>
         /\ Last(readLog[t]).kind = "Ok"
         /\ Last(readLog[t]).n = 0
         /\ \A i \in 1..Len(sendLog[t]) :
               sendLog[t][i].msg.kind = "PtyBytes" => sendLog[t][i].ok)
            => result[t] = "Ok"

\* C9 witness: after delivered bytes and end-of-stream, the final Render was
\* refused and listen has returned Ok.
C9_Witness ==
    \E t \in Terminals :
        /\ pc[t] = "done"
        /\ Last(readLog[t]).kind = "Ok"
        /\ Last(readLog[t]).n = 0
        /\ Len(sendLog[t]) >= 2
        /\ sendLog[t][1].ok
        /\ Last(sendLog[t]).msg.kind = "Render"
        /\ ~Last(sendLog[t]).ok
        /\ result[t] = "Ok"

\* C10: a bridge has at most one offloaded read in flight, and has one exactly
\* while listen awaits it.
C10_OneReadInFlight ==
    \A t \in Terminals :
        /\ inFlight[t] \in {0, 1}
        /\ (inFlight[t] = 1) <=> (pc[t] = "reading")

\* C10 witness: both bridges have a read in flight at once, one of them for the
\* second time.
C10_Witness ==
    /\ inFlight[1] = 1
    /\ inFlight[2] = 1
    /\ Len(readLog[1]) >= 1

\* some read of terminal t returned an error
ReadFailed(t) == \E i \in 1..Len(readLog[t]) : readLog[t][i].kind # "Ok"

\* the screen took bytes of terminal t
Forwarded(t) == \E i \in 1..Len(screenLog[t]) : screenLog[t][i].kind = "PtyBytes"

\* C11: once terminal B's child has written, B's bytes are eventually forwarded
\* unless B's own read fails or the screen stops accepting, whatever bridge A
\* does, a read of A that never returns included.
C11_BForwardedWhileABlocked ==
    (stream[TerminalB] # <<>>) ~>
        (Forwarded(TerminalB) \/ ReadFailed(TerminalB) \/ ~screenOpen)

C11_Witness ==
    /\ pc[TerminalA] = "reading"
    /\ inFlight[TerminalA] = 1
    /\ readLog[TerminalA] = <<>>
    /\ ptyBuf[TerminalA] = <<>>
    /\ Forwarded(TerminalB)
    /\ Concat(BytesOf(screenLog[TerminalB])) = stream[TerminalB]
    /\ Len(stream[TerminalB]) = MaxBytes

C13_GetSizeIsLastResize ==
    (HandleExists /\ lastOp.op = "get_size" /\ lastOp.ok) => lastOp.size = expectSize

C13_Witness ==
    /\ lastOp.op = "get_size"
    /\ lastOp.ok
    /\ lastOp.size # sizeArg
    /\ wrote > 0

\* C14: the working directory is handed to the command exactly when it was
\* given, exists and is a directory; otherwise the command is built without one,
\* as when none was given, and no error of spawn_in_pty comes from the cwd.
C14_CwdOnlyWhenDirectory ==
    /\ spPc \notin {"start", "opened"} /\ spErr # "openpty" =>
           (cmdCwd = "set" <=> (cwdArg.given /\ cwdArg.exists /\ cwdArg.is_dir))
    /\ spPc \in {"start", "opened"} \/ spErr = "openpty" => cmdCwd = "unset"
    /\ spErr \in {"", "openpty", "spawn", "take_writer"}
    /\ spRet = "Err" <=> spErr # ""

C14_Witness ==
    /\ cwdArg.given
    /\ cwdArg.exists
    /\ ~cwdArg.is_dir
    /\ cmdCwd = "unset"
    /\ spRet = "Ok"

Called(name) == \E i \in 1..Len(sigRes.calls) : sigRes.calls[i].call = name

\* the last signal_process call made the OS call `name` and it succeeded
Succeeded(name) ==
    \E i \in 1..Len(sigRes.calls) : sigRes.calls[i].call = name /\ sigRes.calls[i].ok

\* C16 (as claimed): on POSIX a call makes one kill with the signal its kind
\* names, the signal reaches no process but the one whose id is pid, the call
\* is Ok exactly when the signal was delivered, and it is an error that sends
\* nothing when no process has the id pid or the caller may not signal it.
C16_OneSignalByKind ==
    (platform = "unix" /\ sigRes.signal # "none") =>
        /\ Len(sigRes.calls) = 1
        /\ sigRes.calls[1].call = "kill"
        /\ sigRes.signal = "HangUp" => sigRes.calls[1].arg = "SIGHUP"
        /\ sigRes.signal = "Kill" => sigRes.calls[1].arg = "SIGKILL"
        /\ sigRes.signal = "Interrupt" => sigRes.calls[1].arg = "SIGINT"
        /\ sigRes.ok <=> sigRes.calls[1].ok
        /\ sigRes.sent \subseteq {sigRes.pid}
        /\ (sigRes.target \notin {"running", "zombie"} \/ ~Permitted(sigRes.pid)) =>
               (~sigRes.ok /\ sigRes.sent = {})

\* C17: on a console platform Interrupt first tries the control event and goes
\* on to terminate the target exactly when that failed; Kill and HangUp
\* terminate without a control event; the call is Ok exactly when the control
\* event or the termination succeeded.
C17_CtrlEventThenTerminate ==
    (platform = "windows" /\ sigRes.signal # "none") =>
        /\ sigRes.signal = "Interrupt" =>
              /\ sigRes.calls[1].call = "GenerateConsoleCtrlEvent"
              /\ Called("OpenProcess") <=> ~sigRes.calls[1].ok
        /\ sigRes.signal \in {"Kill", "HangUp"} =>
              /\ ~Called("GenerateConsoleCtrlEvent")
              /\ sigRes.calls[1].call = "OpenProcess"
        /\ Called("TerminateProcess") <=> Succeeded("OpenProcess")
        /\ sigRes.ok <=> (Succeeded("GenerateConsoleCtrlEvent") \/ Succeeded("TerminateProcess"))

C17_Witness ==
    /\ platform = "windows"
    /\ sigRes.signal = "Interrupt"
    /\ Called("GenerateConsoleCtrlEvent")
    /\ ~Succeeded("GenerateConsoleCtrlEvent")
    /\ Succeeded("TerminateProcess")
    /\ sigRes.ok

\* C18 (as claimed): on POSIX a call with the id of a process that has exited,
\* waited for or not, returns an error.
C18_ExitedPidIsError ==
    (platform = "unix" /\ sigRes.signal # "none" /\ sigRes.pid \in Pids
        /\ sigRes.target \in {"zombie", "reaped"}) => ~sigRes.ok

\* the events of one kind in a sequence of events
CountOf(evs, e) == Len(SelectSeq(evs, LAMBDA x : x = e))

\* C19 (as claimed): the console blocking iterator reports no termination
\* trigger twice: it has returned at most as many Quit events as quit control
\* events were delivered.
C19_OneEventPerTrigger == CountOf(events, "Quit") <= triggers.quit

C26_EarlyFailureIsQuiet ==
    spErr \in {"openpty", "spawn"} =>
        /\ spPc = "returned"
        /\ spRet = "Err"
        /\ child = "none"
        /\ watcher = "none"
        /\ cbArgs = <<>>
        /\ quitCb = "dropped"
        /\ ~HandleExists
        /\ hWriter = "None"

C26_Witness ==
    /\ spErr = "spawn"
    /\ cmdCwd = "set"
    /\ spRet = "Err"
    /\ slaveOwners = {}

\* C27 (as claimed): on POSIX a call delivers its signal to no process but the
\* one whose id is pid, whatever the pid.
C27_OnlyThePidProcess ==
    (platform = "unix" /\ sigRes.signal # "none") => sigRes.sent \subseteq {sigRes.pid}

\* C28 (as claimed): for an unsuccessful status the handler receives Some(n)
\* with n equal to the reported exit code.
C28_CastKeepsValue ==
    (watcher = "done" /\ waitRes.ok /\ ~Success(waitRes.status)) =>
        cbArgs = <<Some(waitRes.status.code)>>

\* C28 (amended): for an unsuccessful status the handler receives Some(n) with n
\* equal to the reported exit code when the code is below 2^(width-1), and to
\* the code minus 2^width when it is 2^(width-1) or more.
C28_CastKeepsLowCodes ==
    (watcher = "done" /\ waitRes.ok /\ ~Success(waitRes.status)) =>
        LET c == waitRes.status.code
        IN  cbArgs = <<Some(IF c < Pow2(CodeBits - 1) THEN c ELSE c - Pow2(CodeBits))>>

\* C28 witness: a code with its two top bits set, as 0xC0000142 has, was
\* delivered as the code minus 2^width.
C28_Witness ==
    /\ watcher = "done"
    /\ waitRes.ok
    /\ waitRes.status.code = Pow2(CodeBits - 1) + Pow2(CodeBits - 2)
    /\ cbArgs = <<Some(0 - Pow2(CodeBits - 2))>>

\* the PtyBytes messages bridge t has finished sending, accepted or not
SendsCompleted(t) == Len(SelectSeq(sendLog[t], LAMBDA m : m.msg.kind = "PtyBytes"))

\* C29: a bridge has read at most one batch of bytes whose send has not
\* completed, and while it has one it has no read in flight and issues none.
C29_OneUndeliveredMessage ==
    \A t \in Terminals :
        LET undelivered == Len(NonEmptyReads(t)) - SendsCompleted(t)
        IN  /\ undelivered \in {0, 1}
            /\ undelivered = 1 <=> pc[t] \in {"matched", "sending"}
                                   /\ readRes[t].kind = "Ok" /\ readRes[t].n > 0
            /\ undelivered = 1 => (inFlight[t] = 0 /\ ~ENABLED IssueRead(t))

\* C29 witness: the second batch of a bridge waits to be sent while the child
\* has written more, which stays unread.
C29_Witness ==
    /\ pc[1] = "sending"
    /\ Len(NonEmptyReads(1)) = 2
    /\ SendsCompleted(1) = 1
    /\ ptyBuf[1] # <<>>

\* C21: on the console blocking iterator, a call to next that finds the quit
\* flag set while the console size differs from last_size returns Quit, never
\* Resize, and leaves last_size as it was
C21_QuitBeforeResize ==
    [][(handler /\ quitFlag /\ termSize # lastSize /\ events' # events)
          => (events' = Append(events, "Quit") /\ lastSize' = lastSize)]_vars

\* C21 witness: Quit was returned for the flag while a resize of the console
\* was still unreported
C21_Witness ==
    /\ lkind = "win_blocking"
    /\ events # <<>>
    /\ Last(events) = "Quit"
    /\ cause = "flag"
    /\ triggers.resize > 0
    /\ termSize # lastSize

\* C22: in the polling listeners a size sample returns Resize exactly when the
\* query succeeded and the size read differs from last_size, and last_size is
\* then the size read; an equal sample or a failed query returns nothing and
\* leaves last_size alone, so every Resize comes with a change of last_size
C22_ResizeIffSampleDiffers ==
    /\ [](lkind \in PollingKinds =>
            /\ sample.emitted <=> (sample.ok /\ sample.size # sample.before)
            /\ sample.after = IF sample.emitted THEN sample.size ELSE sample.before)
    /\ [][(lkind \in PollingKinds /\ sample' # sample) =>
            /\ sample'.before = lastSize
            /\ sample'.ok => sample'.size = termSize
            /\ lastSize' = sample'.after
            /\ events' = IF sample'.emitted THEN Append(events, "Resize") ELSE events]_vars
    /\ [][(lkind \in PollingKinds /\ events' = Append(events, "Resize")) =>
            (lastSize' # lastSize /\ lastSize' = termSize)]_vars

\* C22 witness: the async console listener has returned Resize twice, and its
\* last size query failed while the console size differs from last_size
C22_Witness ==
    /\ lkind = "win_async"
    /\ events = <<"Resize", "Resize">>
    /\ ~sample.ok
    /\ sample.before = lastSize
    /\ lastSize # FallbackSize
    /\ termSize # lastSize

\* C23: on POSIX both listeners return an event only for one of the five
\* signals, taken from those delivered: Resize for window-change, Quit for
\* terminate, interrupt, quit and hangup; any other signal returns nothing
C23_SignalMapping ==
    /\ [](lkind \in UnixKinds /\ events # <<>> /\ Last(events) # "None" =>
            /\ cause \in UnixSignals
            /\ Last(events) = "Resize" <=> cause = "SIGWINCH"
            /\ Last(events) = "Quit" <=> cause \in {"SIGTERM", "SIGINT", "SIGQUIT", "SIGHUP"})
    /\ [][(lkind \in UnixKinds /\ events' # events /\ Last(events') # "None") =>
            \E signal \in pending :
               /\ pending' = pending \ {signal}
               /\ \/ signal = "SIGWINCH" /\ events' = Append(events, "Resize")
                  \/ /\ signal \in {"SIGTERM", "SIGINT", "SIGQUIT", "SIGHUP"}
                     /\ events' = Append(events, "Quit")]_vars

\* C23 witness: the blocking iterator has returned Resize for a window change
\* and then Quit for a hangup
C23_Witness ==
    /\ lkind = "unix_blocking"
    /\ events = <<"Resize", "Quit">>
    /\ cause = "SIGHUP"

\* C24: on POSIX and on the console a pull returns None only when the
\* notification source it waited on has failed for good, never because
\* nothing is pending or because an event has been returned before
C24_NoneOnlyAfterFailure ==
    (\E i \in DOMAIN events : events[i] = "None") =>
        /\ cause \in EndingSources(lkind)
        /\ cause \in closed

\* C24 witness: the async POSIX listener returned Quit, then one of its streams
\* ended and the next pull returned None
C24_Witness ==
    /\ lkind = "unix_async"
    /\ events = <<"Quit", "None">>
    /\ cause \in closed
    /\ pending # {}

\* C25: a constructor returns Err when any of its registrations fails and a
\* listener only when all succeeded; on a platform that is neither POSIX nor
\* console-based both constructors return Unsupported and no listener
C25_ConstructionFailsAtOnce ==
    /\ newRes.failed # {} => newRes.res = "Err"
    /\ newRes.res = "Ok" => handler
    /\ lkind # "win_blocking" => (handler <=> newRes.res = "Ok")
    /\ lkind \in OtherKinds => (newRes.res \in {"none", "Unsupported"} /\ ~handler)
    /\ (lkind \in OtherKinds /\ iters > 0) => newRes.res = "Unsupported"

\* C25 witness: the last of the three control-stream registrations of the
\* async console listener failed and new returned Err
C25_Witness ==
    /\ lkind = "win_async"
    /\ newRes = NewResult("Err", {"ctrl_close"})
    /\ ~handler

\* C30: a polling listener returns Resize only for a resize of the terminal
\* that happened after it was constructed: no more Resize events than resizes
C30_ResizeOnlyAfterRealChange ==
    lkind \in PollingKinds => CountOf(events, "Resize") <= triggers.resize

\* C31: the handle spawn_in_pty returns has its writer, no operation of the
\* handle removes or replaces it, and so write and drain never fail with
\* "PTY writer has already been taken"
C31_WriterAlwaysPresent ==
    /\ [](HandleExists =>
            /\ hWriter = "Some"
            /\ lastOp.err # "PTY writer has already been taken")
    /\ [][HandleExists => hWriter' = hWriter]_vars

\* C31 witness: after writes through the handle the reader was cloned, and the
\* writer is still there
C31_Witness ==
    /\ HandleExists
    /\ wrote = MaxWritten
    /\ lastOp.op = "try_clone_reader"
    /\ lastOp.ok
    /\ hWriter = "Some"

====
